---- MODULE Spec2Model ----
(***************************************************************************)
(* A model of can_core (src/can_core.h, src/unnamed/part_000): the RX      *)
(* instance (ingestion ring, table dispatch, timeout supervision), the TX  *)
(* instance (egress ring, periodic generation, bus-gated flush) and the    *)
(* process-wide tick.                                                      *)
(*                                                                         *)
(* src/unnamed/part_000 holds two copies of can_core.c.  The model follows *)
(* the second, documented copy (lines 210-548); the first copy (lines      *)
(* 1-208) differs only in CC_RX_MsgFromTables, which there does not write  *)
(* LastTick, and in the CopyBuf assertion.                                 *)
(*                                                                         *)
(* A handler called from a single context is one atomic action; the        *)
(* specifications SpecSPSC and SpecTXRace run PushMsg and Poll in two       *)
(* contexts, one read or write of the instance per step, and SpecTXLive    *)
(* runs CC_TX_Poll step by step under fairness.  An RX instance and a TX   *)
(* instance share no state but the read-only tick, so a behaviour          *)
(* exercises one instance, chosen in Init (variable instance).             *)
(***************************************************************************)
EXTENDS Integers, Sequences, FiniteSets, TLC

VARIABLES
    CC_tick,      \* the value of the registered tick variable, *CC_tick
    CC_TIME_t,    \* build configuration: [bits, intBits], width of CC_TIME_t and of int
    instance,     \* "RX" or "TX": the instance this behaviour exercises
    RxInstance,   \* CC_RX_instance_t: Buf, Head, Tail, RxTable (pointer), Parser_unreg_msg, TimeoutCallback
    RxTable,      \* the externally owned CC_RX_table_t array
    TxInstance,   \* CC_TX_instance_t: Buf, Head, Tail, SendFunction, BusCheck
    TxTable,      \* the externally owned CC_TX_table_t array
    called,       \* history: the last step (a call and its arguments, or a tick)
    callLog,      \* history: the calls the last step made, in order
    pending,      \* history: the frames accepted by PushMsg and not yet dequeued
    clock,        \* history: ticks elapsed since the start (never wraps)
    fired,        \* history: per table entry, clock at its last timeout / generation
    registered,   \* CC_tick != NULL: CC_tick_variable_register has been called
    pc            \* the producer and the consumer context inside a handler (SpecSPSC, SpecTXRace, SpecTXLive)

vars == <<CC_tick, CC_TIME_t, instance, RxInstance, RxTable, TxInstance, TxTable,
          called, callLog, pending, clock, fired, registered, pc>>

(***************************** bounds **************************************)
\* Ring capacity of the model; the source sets both buffer sizes to 32.
BufferSize == 3
\* Number of tick increments a behaviour makes where timing matters.
MaxTick == 5
\* Number of tick increments a behaviour of Spec makes.
RingTicks == 1
\* Largest timeout / send period of a table entry.
MaxPeriod == 2

(************************* program constants *******************************)
CC_RX_BUFFER_SIZE == BufferSize
CC_TX_BUFFER_SIZE == BufferSize
\* uint8_t DLC : 4
DLC_BITS == 4
\* uint8_t IDE_flag : 1
IDE_BITS == 1
\* uint8_t Data[8]
DATA_LEN == 8

Min(a, b) == IF a < b THEN a ELSE b

Zero8 == <<0, 0, 0, 0, 0, 0, 0, 0>>
Ones8 == <<1, 1, 1, 1, 1, 1, 1, 1>>

\* A zero-initialised CC_RX_message_t (static storage).
RxMsg0 == [ID |-> 0, Data |-> Zero8, DLC |-> 0, IDE_flag |-> 0, Time |-> 0]
\* A zero-initialised CC_TX_message_t.
TxMsg0 == [ID |-> 0, Data |-> Zero8, DLC |-> 0, IDE_flag |-> 0]

\* Storing v in an unsigned bit-field of the given width.
BitField(v, bits) == v % (2 ^ bits)

(******************************* tick **************************************)
\* CC_GET_TICK: the value read through the registered pointer.
CC_GET_TICK == CC_tick

\* The tick after one increment by its owner, in CC_TIME_t arithmetic.  Widths
\* above 16 bits are modelled below 2^31 only, where no wrap happens.
TickInc(t) ==
    IF CC_TIME_t.bits <= 16 THEN (t + 1) % (2 ^ CC_TIME_t.bits) ELSE t + 1

\* Variant: a signed comparison without the unsigned wrap.
Elapsed_GE_signed(now, last, thr) == now - last >= thr

\* (now - last >= thr) as C evaluates it for operands of type CC_TIME_t.
\* A CC_TIME_t narrower than int is promoted to int: the difference is a signed
\* int and does not wrap.  Otherwise the difference is taken modulo 2^bits; for
\* widths above 16 the model keeps all values below 2^31, so a negative
\* mathematical difference wraps to at least 2^31 and exceeds every threshold.
Elapsed_GE(now, last, thr) ==
    IF CC_TIME_t.bits < CC_TIME_t.intBits
    THEN now - last >= thr
    ELSE IF CC_TIME_t.bits <= 16
         THEN ((now - last) % (2 ^ CC_TIME_t.bits)) >= thr
         ELSE IF now >= last THEN now - last >= thr ELSE TRUE

(****************************** CopyBuf ************************************)
\* for (size_t i; i < size; i++) dst[i] = src[i];  i is read uninitialised:
\* i0 is the indeterminate value it starts from.
CopyBuf(src, dst, size, i0) ==
    [j \in 1..DATA_LEN |-> IF (j - 1 >= i0) /\ (j - 1 < size) THEN src[j] ELSE dst[j]]

(**************************** RX instance **********************************)
\* uint16_t next_head = Instance->Head + 1; if (next_head >= CC_RX_BUFFER_SIZE) next_head = 0;
RX_next_head(h) == IF h + 1 >= CC_RX_BUFFER_SIZE THEN 0 ELSE h + 1

\* The slot written by an accepted push: ID, DLC and IDE_flag are assigned
\* (DLC and IDE_flag into their bit-fields), the payload is copied when
\* 0 < DLC <= 8, and Time is not written.
RX_StoreMsg(slot, ID, Data, DLC, IDE_flag, i0) ==
    [slot EXCEPT !.ID = ID,
                 !.DLC = BitField(DLC, DLC_BITS),
                 !.IDE_flag = BitField(IDE_flag, IDE_BITS),
                 !.Data = IF (DLC > 0) /\ (DLC <= 8) THEN CopyBuf(Data, @, DLC, i0) ELSE @]

\* Variant: a push that does not test for a full buffer.
RX_PushMsg_nofull(inst, ID, Data, DLC, IDE_flag, i0) ==
    LET next_head == RX_next_head(inst.Head)
    IN  [inst EXCEPT !.Head = next_head,
                     !.Buf[next_head] = RX_StoreMsg(@, ID, Data, DLC, IDE_flag, i0)]

\* CC_RX_PushMsg as a function of the instance.
RX_PushMsg(inst, ID, Data, DLC, IDE_flag, i0) ==
    LET next_head == RX_next_head(inst.Head)
    IN  IF next_head = inst.Tail
        THEN inst
        ELSE [inst EXCEPT !.Head = next_head,
                          !.Buf[next_head] = RX_StoreMsg(@, ID, Data, DLC, IDE_flag, i0)]

\* The record of a call, for the histories.
Call(fn, Slot, Msg) == [fn |-> fn, Slot |-> Slot, Msg |-> Msg]

\* Variant: the due test of CC_Timeout_Check with > for >=.
RX_Expired_late(e, now) ==
    (0 # e.TimeOut) /\ Elapsed_GE(now, e.LastTick, e.TimeOut + 1)

\* Variant: the due test without the test for a zero TimeOut.
RX_Expired_nozero(e, now) ==
    Elapsed_GE(now, e.LastTick, e.TimeOut)

\* (0 != TimeOut) && (CC_GET_TICK - LastTick >= TimeOut)
RX_Expired(e, now) ==
    (0 # e.TimeOut) /\ Elapsed_GE(now, e.LastTick, e.TimeOut)

\* The TimeoutCallback calls of CC_Timeout_Check for entries i..TableSize.
RECURSIVE RX_TimeoutCalls(_, _, _, _)
RX_TimeoutCalls(inst, tbl, i, now) ==
    IF i > inst.TableSize
    THEN <<>>
    ELSE (IF RX_Expired(tbl[i], now) /\ inst.TimeoutCallback
          THEN <<Call("TimeoutCallback", tbl[i].SlotNo, RxMsg0)>>
          ELSE <<>>)
         \o RX_TimeoutCalls(inst, tbl, i + 1, now)

\* CC_Timeout_Check: the table after it and the callbacks it made.
CC_Timeout_Check(inst, tbl, now) ==
    IF inst.RxTable = "NULL"
    THEN [tbl |-> tbl, calls |-> <<>>]
    ELSE [tbl |-> [i \in 1..Len(tbl) |->
                     IF i <= inst.TableSize /\ RX_Expired(tbl[i], now)
                     THEN [tbl[i] EXCEPT !.LastTick = now]
                     ELSE tbl[i]],
          calls |-> RX_TimeoutCalls(inst, tbl, 1, now)]

\* Variant: the first entry with the frame's id decides.
RECURSIVE RX_MatchIndex_firstid(_, _, _, _)
RX_MatchIndex_firstid(inst, tbl, Msg, i) ==
    IF i > inst.TableSize
    THEN 0
    ELSE IF tbl[i].ID = Msg.ID
         THEN IF (tbl[i].DLC = Msg.DLC) /\ (tbl[i].IDE_flag = Msg.IDE_flag) THEN i ELSE 0
         ELSE RX_MatchIndex_firstid(inst, tbl, Msg, i + 1)

\* Variant: the last entry equal to the frame in ID, DLC and IDE_flag decides.
RECURSIVE RX_MatchIndex_last(_, _, _, _)
RX_MatchIndex_last(inst, tbl, Msg, i) ==
    IF i > inst.TableSize
    THEN 0
    ELSE LET rest == RX_MatchIndex_last(inst, tbl, Msg, i + 1)
         IN  IF rest > 0
             THEN rest
             ELSE IF (tbl[i].ID = Msg.ID) /\ (tbl[i].DLC = Msg.DLC) /\ (tbl[i].IDE_flag = Msg.IDE_flag)
                  THEN i
                  ELSE 0

\* The scan of CC_RX_MsgFromTables from entry i on: the index of the first
\* entry whose ID, DLC and IDE_flag all equal the frame's, 0 when there is none.
RECURSIVE RX_MatchIndex(_, _, _, _)
RX_MatchIndex(inst, tbl, Msg, i) ==
    IF i > inst.TableSize
    THEN 0
    ELSE IF (tbl[i].ID = Msg.ID) /\ (tbl[i].DLC = Msg.DLC) /\ (tbl[i].IDE_flag = Msg.IDE_flag)
         THEN i
         ELSE RX_MatchIndex(inst, tbl, Msg, i + 1)

\* CC_RX_MsgFromTables: 0 for CC_MSG_UNREG, else the index of the entry whose
\* Parser was called and whose LastTick was set to Msg->Time.
CC_RX_MsgFromTables(inst, tbl, Msg) ==
    IF inst.RxTable = "NULL" THEN 0 ELSE RX_MatchIndex(inst, tbl, Msg, 1)

\* Instance->Tail++; if (Instance->Tail >= CC_RX_BUFFER_SIZE) Instance->Tail = 0;
RX_next_tail(t) == IF t + 1 >= CC_RX_BUFFER_SIZE THEN 0 ELSE t + 1

\* Variant: a Poll dequeues one frame and leaves the others for the next Poll.
RX_Drain_one(inst, tbl, calls) ==
    IF inst.Head = inst.Tail
    THEN [inst |-> inst, tbl |-> tbl, calls |-> calls]
    ELSE LET tail == RX_next_tail(inst.Tail)
             Msg == inst.Buf[tail]
             m == CC_RX_MsgFromTables(inst, tbl, Msg)
         IN  [inst |-> [inst EXCEPT !.Tail = tail],
              tbl |-> IF m > 0 THEN [tbl EXCEPT ![m].LastTick = Msg.Time] ELSE tbl,
              calls |-> calls \o <<Call("CC_RX_MsgFromTables", 0, Msg)>>
                              \o (IF m > 0
                                  THEN <<Call("Parser", tbl[m].SlotNo, Msg)>>
                                  ELSE IF inst.Parser_unreg_msg
                                       THEN <<Call("Parser_unreg_msg", 0, Msg)>>
                                       ELSE <<>>)]

\* Variant: the fallback handler gets every dequeued frame, found in the
\* table or not.
RECURSIVE RX_Drain_both(_, _, _)
RX_Drain_both(inst, tbl, calls) ==
    IF inst.Head = inst.Tail
    THEN [inst |-> inst, tbl |-> tbl, calls |-> calls]
    ELSE LET tail == RX_next_tail(inst.Tail)
             Msg == inst.Buf[tail]
             m == CC_RX_MsgFromTables(inst, tbl, Msg)
         IN  RX_Drain_both([inst EXCEPT !.Tail = tail],
                           IF m > 0 THEN [tbl EXCEPT ![m].LastTick = Msg.Time] ELSE tbl,
                           calls \o <<Call("CC_RX_MsgFromTables", 0, Msg)>>
                                 \o (IF m > 0 THEN <<Call("Parser", tbl[m].SlotNo, Msg)>> ELSE <<>>)
                                 \o (IF inst.Parser_unreg_msg
                                     THEN <<Call("Parser_unreg_msg", 0, Msg)>>
                                     ELSE <<>>))

\* The drain loop of CC_RX_Poll.
RECURSIVE RX_Drain(_, _, _)
RX_Drain(inst, tbl, calls) ==
    IF inst.Head = inst.Tail
    THEN [inst |-> inst, tbl |-> tbl, calls |-> calls]
    ELSE LET tail == RX_next_tail(inst.Tail)
             Msg == inst.Buf[tail]
             m == CC_RX_MsgFromTables(inst, tbl, Msg)
         IN  RX_Drain([inst EXCEPT !.Tail = tail],
                      IF m > 0 THEN [tbl EXCEPT ![m].LastTick = Msg.Time] ELSE tbl,
                      calls \o <<Call("CC_RX_MsgFromTables", 0, Msg)>>
                            \o (IF m > 0
                                THEN <<Call("Parser", tbl[m].SlotNo, Msg)>>
                                ELSE IF inst.Parser_unreg_msg
                                     THEN <<Call("Parser_unreg_msg", 0, Msg)>>
                                     ELSE <<>>))

\* CC_RX_Poll as a function of the instance, the table and the tick.
RX_Poll(inst, tbl, now) ==
    LET tc == CC_Timeout_Check(inst, tbl, now)
    IN  RX_Drain(inst, tc.tbl, tc.calls)

\* The calls of one kind in a history.
CallsOf(calls, fn) == SelectSeq(calls, LAMBDA c : c.fn = fn)

NoArgs == [ID |-> 0, Data |-> Zero8, DLC |-> 0, IDE_flag |-> 0]

\* A context that is in no PushMsg: the locals of an activation of PushMsg
\* are its position, next_head and its arguments.
PushIdle == [at |-> "idle", next_head |-> 0, args |-> NoArgs]

\* A context that is in no Poll: the locals of an activation of Poll are its
\* position, the table index of CC_TX_MsgFromTables and the PushMsg it is in.
PollIdle == [at |-> "idle", i |-> 0, push |-> PushIdle]

\* The history record of a call.
Called(fn, args, accepted, nFree) ==
    [fn |-> fn, args |-> args, accepted |-> accepted, nFree |-> nFree]

\* A failed assert aborts the program, and so does a faulting access.
Aborted == (callLog # <<>>) /\ (callLog[Len(callLog)].fn \in {"assert", "fault"})

\* void CC_RX_PushMsg(Instance, ID, Data, DLC, IDE_flag)
CC_RX_PushMsg(ID, Data, DLC, IDE_flag, i0) ==
    /\ instance = "RX"
    /\ ~Aborted
    /\ LET inst == RX_PushMsg(RxInstance, ID, Data, DLC, IDE_flag, i0)
           args == [ID |-> ID, Data |-> Data, DLC |-> DLC, IDE_flag |-> IDE_flag]
           accepted == inst.Head # RxInstance.Head
       IN  /\ RxInstance' = inst
           /\ called' = Called("CC_RX_PushMsg", args, accepted, 0)
           /\ pending' = IF accepted
                         THEN Append(pending, [args |-> args,
                                               stored |-> inst.Buf[inst.Head],
                                               at |-> CC_GET_TICK])
                         ELSE pending
    /\ callLog' = <<>>
    /\ UNCHANGED <<CC_tick, CC_TIME_t, instance, RxTable, TxInstance, TxTable,
                   clock, fired, registered, pc>>

\* The outcomes of evaluating CC_GET_TICK, *CC_tick, in a handler that
\* needs it: the value of the registered variable; with CC_tick still NULL
\* the read is undefined, it faults or yields whatever address 0 holds.
TickRead(needed) ==
    IF registered \/ ~needed
    THEN {[fault |-> FALSE, value |-> CC_GET_TICK]}
    ELSE {[fault |-> TRUE, value |-> 0]}
         \cup {[fault |-> FALSE, value |-> v] : v \in 0..MaxPeriod}

\* CC_Timeout_Check evaluates CC_GET_TICK for the entries with a timeout.
RX_ReadsTick ==
    /\ RxInstance.RxTable # "NULL"
    /\ \E i \in 1..RxInstance.TableSize : RxTable[i].TimeOut # 0

\* void CC_RX_Poll(Instance)
CC_RX_Poll ==
    /\ instance = "RX"
    /\ ~Aborted
    /\ \E t \in TickRead(RX_ReadsTick) :
         IF t.fault
         THEN /\ callLog' = <<Call("fault", 0, RxMsg0)>>
              /\ UNCHANGED <<RxInstance, RxTable, pending, fired>>
         ELSE /\ LET r == RX_Poll(RxInstance, RxTable, t.value)
                     n == Len(CallsOf(r.calls, "CC_RX_MsgFromTables"))
                 IN  /\ RxInstance' = r.inst
                     /\ RxTable' = r.tbl
                     /\ callLog' = r.calls
                     /\ pending' = SubSeq(pending, n + 1, Len(pending))
              /\ fired' = [i \in 1..Len(fired) |->
                             IF /\ RxInstance.RxTable # "NULL"
                                /\ i <= RxInstance.TableSize
                                /\ RX_Expired(RxTable[i], t.value)
                             THEN clock ELSE fired[i]]
    /\ called' = Called("CC_RX_Poll", NoArgs, FALSE, 0)
    /\ UNCHANGED <<CC_tick, CC_TIME_t, instance, TxInstance, TxTable, clock,
                   registered, pc>>

\* The owner of the tick variable (a periodic interrupt) increments it.
Tick(limit) ==
    /\ clock < limit
    /\ ~Aborted
    /\ CC_tick' = TickInc(CC_tick)
    /\ clock' = clock + 1
    /\ called' = Called("tick", NoArgs, FALSE, 0)
    /\ callLog' = <<>>
    /\ UNCHANGED <<CC_TIME_t, instance, RxInstance, RxTable, TxInstance, TxTable,
                   pending, fired, registered, pc>>

(**************************** TX instance **********************************)
\* uint16_t next_head = Instance->Head + 1; if (next_head >= CC_RX_BUFFER_SIZE) next_head = 0;
\* (CC_TX_PushMsg wraps at CC_RX_BUFFER_SIZE; both sizes are equal.)
TX_next_head(h) == IF h + 1 >= CC_RX_BUFFER_SIZE THEN 0 ELSE h + 1

\* The slot written by an accepted CC_TX_PushMsg.
TX_StoreMsg(slot, ID, Data, DLC, IDE_flag, i0) ==
    [slot EXCEPT !.ID = ID,
                 !.DLC = BitField(DLC, DLC_BITS),
                 !.IDE_flag = BitField(IDE_flag, IDE_BITS),
                 !.Data = IF (DLC > 0) /\ (DLC <= 8) THEN CopyBuf(Data, @, DLC, i0) ELSE @]

\* Variant: a push that does not test for a full buffer.
TX_PushMsg_nofull(inst, ID, Data, DLC, IDE_flag, i0) ==
    LET next_head == TX_next_head(inst.Head)
    IN  [inst EXCEPT !.Head = next_head,
                     !.Buf[next_head] = TX_StoreMsg(@, ID, Data, DLC, IDE_flag, i0)]

\* CC_TX_PushMsg as a function of the instance.
TX_PushMsg(inst, ID, Data, DLC, IDE_flag, i0) ==
    LET next_head == TX_next_head(inst.Head)
    IN  IF next_head = inst.Tail
        THEN inst
        ELSE [inst EXCEPT !.Head = next_head,
                          !.Buf[next_head] = TX_StoreMsg(@, ID, Data, DLC, IDE_flag, i0)]

\* Variant: the due test of CC_TX_MsgFromTables with > for >=.
TX_Due_late(e, now) == Elapsed_GE(now, e.LastTick, e.SendFreq + 1)

\* CC_GET_TICK - LastTick >= SendFreq
TX_Due(e, now) == Elapsed_GE(now, e.LastTick, e.SendFreq)

\* Variant: LastTick advances by SendFreq instead of being set to the tick.
RECURSIVE TX_Generate_grid(_, _, _, _, _, _, _)
TX_Generate_grid(inst, tbl, i, now, Temp, ub, out) ==
    IF i > inst.TableSize
    THEN [inst |-> inst, tbl |-> tbl, calls |-> out.calls, gen |-> out.gen]
    ELSE IF TX_Due(tbl[i], now)
         THEN LET e == tbl[i]
                  args == [ID |-> e.ID, Data |-> Temp, DLC |-> e.DLC, IDE_flag |-> e.IDE_flag]
                  inst2 == TX_PushMsg(inst, e.ID, Temp, e.DLC, e.IDE_flag, ub.i[2 * i])
              IN  TX_Generate_grid(inst2, [tbl EXCEPT ![i].LastTick = @ + e.SendFreq],
                      i + 1, now, Temp, ub,
                      [calls |-> out.calls \o <<Call("CC_TX_PushMsg", e.SlotNo, args)>>,
                       gen |-> IF inst2.Head # inst.Head
                               THEN Append(out.gen, [args |-> args,
                                                     stored |-> inst2.Buf[inst2.Head],
                                                     at |-> now])
                               ELSE out.gen])
         ELSE TX_Generate_grid(inst, tbl, i + 1, now, Temp, ub, out)

\* Variant: LastTick is set only when CC_TX_PushMsg has room for the frame,
\* so that a dropped occurrence stays due.
RECURSIVE TX_Generate_retry(_, _, _, _, _, _, _)
TX_Generate_retry(inst, tbl, i, now, Temp, ub, out) ==
    IF i > inst.TableSize
    THEN [inst |-> inst, tbl |-> tbl, calls |-> out.calls, gen |-> out.gen]
    ELSE IF TX_Due(tbl[i], now)
         THEN LET e == tbl[i]
                  t1 == CopyBuf(e.Data, Temp, e.DLC, ub.i[2 * i - 1])
                  t2 == IF e.Parser THEN ub.xf[i] ELSE t1
                  args == [ID |-> e.ID, Data |-> t2, DLC |-> e.DLC, IDE_flag |-> e.IDE_flag]
                  inst2 == TX_PushMsg(inst, e.ID, t2, e.DLC, e.IDE_flag, ub.i[2 * i])
                  accepted == inst2.Head # inst.Head
              IN  TX_Generate_retry(inst2,
                      IF accepted THEN [tbl EXCEPT ![i].LastTick = now] ELSE tbl,
                      i + 1, now, t2, ub,
                      [calls |-> out.calls
                                 \o (IF e.Parser THEN <<Call("Parser", e.SlotNo, args)>> ELSE <<>>)
                                 \o <<Call("CC_TX_PushMsg", e.SlotNo, args)>>,
                       gen |-> IF accepted
                               THEN Append(out.gen, [args |-> args,
                                                     stored |-> inst2.Buf[inst2.Head],
                                                     at |-> now])
                               ELSE out.gen])
         ELSE TX_Generate_retry(inst, tbl, i + 1, now, Temp, ub, out)

\* Variant: the Parser callback works on the entry's own Data, no scratch copy.
RECURSIVE TX_Generate_inplace(_, _, _, _, _, _, _)
TX_Generate_inplace(inst, tbl, i, now, Temp, ub, out) ==
    IF i > inst.TableSize
    THEN [inst |-> inst, tbl |-> tbl, calls |-> out.calls, gen |-> out.gen]
    ELSE IF TX_Due(tbl[i], now)
         THEN LET e == tbl[i]
                  t2 == IF e.Parser THEN ub.xf[i] ELSE e.Data
                  args == [ID |-> e.ID, Data |-> t2, DLC |-> e.DLC, IDE_flag |-> e.IDE_flag]
                  inst2 == TX_PushMsg(inst, e.ID, t2, e.DLC, e.IDE_flag, ub.i[2 * i])
                  accepted == inst2.Head # inst.Head
              IN  TX_Generate_inplace(inst2,
                      [tbl EXCEPT ![i].LastTick = now, ![i].Data = t2], i + 1, now, Temp, ub,
                      [calls |-> out.calls
                                 \o (IF e.Parser THEN <<Call("Parser", e.SlotNo, args)>> ELSE <<>>)
                                 \o <<Call("CC_TX_PushMsg", e.SlotNo, args)>>,
                       gen |-> IF accepted
                               THEN Append(out.gen, [args |-> args,
                                                     stored |-> inst2.Buf[inst2.Head],
                                                     at |-> now])
                               ELSE out.gen])
         ELSE TX_Generate_inplace(inst, tbl, i + 1, now, Temp, ub, out)

\* The loop of CC_TX_MsgFromTables from entry i on.  Temp is the scratch
\* buffer (uninitialised on entry), ub.i[2i-1] and ub.i[2i] are the
\* indeterminate start values of the two CopyBuf loops run for entry i, and
\* ub.xf[i] is what the entry's Parser callback leaves in the scratch buffer.
\* gen collects the frames CC_TX_PushMsg accepted.
RECURSIVE TX_Generate(_, _, _, _, _, _, _)
TX_Generate(inst, tbl, i, now, Temp, ub, out) ==
    IF i > inst.TableSize
    THEN [inst |-> inst, tbl |-> tbl, calls |-> out.calls, gen |-> out.gen]
    ELSE IF TX_Due(tbl[i], now)
         THEN LET e == tbl[i]
                  t1 == CopyBuf(e.Data, Temp, e.DLC, ub.i[2 * i - 1])
                  t2 == IF e.Parser THEN ub.xf[i] ELSE t1
                  args == [ID |-> e.ID, Data |-> t2, DLC |-> e.DLC, IDE_flag |-> e.IDE_flag]
                  inst2 == TX_PushMsg(inst, e.ID, t2, e.DLC, e.IDE_flag, ub.i[2 * i])
                  accepted == inst2.Head # inst.Head
              IN  TX_Generate(inst2, [tbl EXCEPT ![i].LastTick = now], i + 1, now, t2, ub,
                      [calls |-> out.calls
                                 \o (IF e.Parser THEN <<Call("Parser", e.SlotNo, args)>> ELSE <<>>)
                                 \o <<Call("CC_TX_PushMsg", e.SlotNo, args)>>,
                       gen |-> IF accepted
                               THEN Append(out.gen, [args |-> args,
                                                     stored |-> inst2.Buf[inst2.Head],
                                                     at |-> now])
                               ELSE out.gen])
         ELSE TX_Generate(inst, tbl, i + 1, now, Temp, ub, out)

\* Instance->Tail++; if (Instance->Tail >= CC_TX_BUFFER_SIZE) Instance->Tail = 0;
TX_next_tail(t) == IF t + 1 >= CC_TX_BUFFER_SIZE THEN 0 ELSE t + 1

\* Variant: the flush loop without the bus check.
RECURSIVE TX_Flush_nocheck(_, _, _)
TX_Flush_nocheck(inst, nFree, calls) ==
    IF inst.Head = inst.Tail
    THEN [inst |-> inst, calls |-> calls]
    ELSE LET tail == TX_next_tail(inst.Tail)
         IN  TX_Flush_nocheck([inst EXCEPT !.Tail = tail], nFree,
                              calls \o <<Call("SendFunction", 0, inst.Buf[tail])>>)

\* Variant: the bus is checked once, before the first send only.
TX_Flush_once(inst, nFree, calls) ==
    IF inst.Head = inst.Tail
    THEN [inst |-> inst, calls |-> calls]
    ELSE IF nFree = 0
         THEN [inst |-> inst, calls |-> calls \o <<Call("BusCheck", 0, TxMsg0)>>]
         ELSE TX_Flush_nocheck(inst, nFree, calls \o <<Call("BusCheck", 1, TxMsg0)>>)

\* The flush loop of CC_TX_Poll.  BusCheck answers CC_BUS_FREE to its first
\* nFree calls and CC_BUS_BUSY to the next one.
RECURSIVE TX_Flush(_, _, _)
TX_Flush(inst, nFree, calls) ==
    IF inst.Head = inst.Tail
    THEN [inst |-> inst, calls |-> calls]
    ELSE IF nFree = 0
         THEN [inst |-> inst, calls |-> calls \o <<Call("BusCheck", 0, TxMsg0)>>]
         ELSE LET tail == TX_next_tail(inst.Tail)
                  inst2 == [inst EXCEPT !.Tail = tail]
              IN  IF ~inst.SendFunction
                  THEN [inst |-> inst2,
                        calls |-> calls \o <<Call("BusCheck", 1, TxMsg0), Call("assert", 0, TxMsg0)>>]
                  ELSE TX_Flush(inst2, nFree - 1,
                                calls \o <<Call("BusCheck", 1, TxMsg0),
                                           Call("SendFunction", 0, inst.Buf[tail])>>)

\* Variant: SendFunction is asserted with BusCheck, on entry.
TX_Poll_eager(inst, tbl, now, nFree, temp0, ub) ==
    IF ~inst.BusCheck \/ ~inst.SendFunction
    THEN [inst |-> inst, tbl |-> tbl, calls |-> <<Call("assert", 0, TxMsg0)>>, gen |-> <<>>]
    ELSE LET g == TX_Generate(inst, tbl, 1, now, temp0, ub, [calls |-> <<>>, gen |-> <<>>])
             f == TX_Flush(g.inst, nFree, g.calls)
         IN  [inst |-> f.inst, tbl |-> g.tbl, calls |-> f.calls, gen |-> g.gen]

\* CC_TX_Poll as a function of the instance, the table, the tick and the
\* answers of its environment.
TX_Poll(inst, tbl, now, nFree, temp0, ub) ==
    IF ~inst.BusCheck
    THEN [inst |-> inst, tbl |-> tbl, calls |-> <<Call("assert", 0, TxMsg0)>>, gen |-> <<>>]
    ELSE LET g == TX_Generate(inst, tbl, 1, now, temp0, ub, [calls |-> <<>>, gen |-> <<>>])
             f == TX_Flush(g.inst, nFree, g.calls)
         IN  [inst |-> f.inst, tbl |-> g.tbl, calls |-> f.calls, gen |-> g.gen]

\* void CC_TX_PushMsg(Instance, ID, Data, DLC, IDE_flag)
CC_TX_PushMsg(ID, Data, DLC, IDE_flag, i0) ==
    /\ instance = "TX"
    /\ ~Aborted
    /\ LET inst == TX_PushMsg(TxInstance, ID, Data, DLC, IDE_flag, i0)
           args == [ID |-> ID, Data |-> Data, DLC |-> DLC, IDE_flag |-> IDE_flag]
           accepted == inst.Head # TxInstance.Head
       IN  /\ TxInstance' = inst
           /\ called' = Called("CC_TX_PushMsg", args, accepted, 0)
           /\ pending' = IF accepted
                         THEN Append(pending, [args |-> args,
                                               stored |-> inst.Buf[inst.Head],
                                               at |-> CC_GET_TICK])
                         ELSE pending
    /\ callLog' = <<>>
    /\ UNCHANGED <<CC_tick, CC_TIME_t, instance, RxInstance, RxTable, TxTable,
                   clock, fired, registered, pc>>

\* CC_TX_MsgFromTables evaluates CC_GET_TICK for every table entry.
TX_ReadsTick == TxInstance.BusCheck /\ (TxInstance.TableSize > 0)

\* void CC_TX_Poll(Instance)
CC_TX_Poll(nFree, temp0, ub) ==
    /\ instance = "TX"
    /\ ~Aborted
    /\ \E t \in TickRead(TX_ReadsTick) :
         IF t.fault
         THEN /\ callLog' = <<Call("fault", 0, TxMsg0)>>
              /\ UNCHANGED <<TxInstance, TxTable, pending, fired>>
         ELSE /\ LET r == TX_Poll(TxInstance, TxTable, t.value, nFree, temp0, ub)
                     n == Len(CallsOf(r.calls, "SendFunction"))
                     all == pending \o r.gen
                 IN  /\ TxInstance' = r.inst
                     /\ TxTable' = r.tbl
                     /\ callLog' = r.calls
                     /\ pending' = SubSeq(all, n + 1, Len(all))
              /\ fired' = [i \in 1..Len(fired) |->
                             IF /\ TxInstance.BusCheck
                                /\ i <= TxInstance.TableSize
                                /\ TX_Due(TxTable[i], t.value)
                             THEN clock ELSE fired[i]]
    /\ called' = Called("CC_TX_Poll", NoArgs, FALSE, nFree)
    /\ UNCHANGED <<CC_tick, CC_TIME_t, instance, RxInstance, RxTable, clock,
                   registered, pc>>

\* The indeterminate values one CC_TX_Poll reads (temp: the scratch buffer on
\* entry), up to those it does not use: entries that are not due, or copy
\* nothing, get 0, and so does the Parser result of an entry without Parser.
TX_Indeterminate(payloads) ==
    LET n == Len(TxTable)
        due(i) == TX_Due(TxTable[i], CC_GET_TICK)
    IN  { ub \in [temp : payloads \cup {Zero8},
                   i : [1..2 * n -> 0..1],
                   xf : [1..n -> payloads \cup {Zero8}]] :
            /\ ub.temp # Zero8 => \E k \in 1..n : due(k) /\ TxTable[k].DLC > 0
            /\ \A k \in 1..2 * n :
                 ub.i[k] = 1 => due((k + 1) \div 2) /\ TxTable[(k + 1) \div 2].DLC > 0
            /\ \A k \in 1..n :
                 ub.xf[k] # Zero8 => due(k) /\ TxTable[k].Parser }

(****************************** Init ***************************************)
RxEntry(SlotNo, ID, DLC, IDE_flag, TimeOut) ==
    [SlotNo |-> SlotNo, ID |-> ID, DLC |-> DLC, IDE_flag |-> IDE_flag,
     TimeOut |-> TimeOut, LastTick |-> 0]

TxEntry(SlotNo, ID, Data, DLC, IDE_flag, SendFreq, Parser) ==
    [SlotNo |-> SlotNo, ID |-> ID, Data |-> Data, DLC |-> DLC, IDE_flag |-> IDE_flag,
     SendFreq |-> SendFreq, Parser |-> Parser, LastTick |-> 0]

\* A table whose entries carry LastTick = t: the application's initialiser
\* (t = 0), or what a firing of every entry at tick t leaves (LastTick =
\* CC_GET_TICK); the init functions do not touch LastTick.
Stamped(tbl, t) == [i \in 1..Len(tbl) |-> [tbl[i] EXCEPT !.LastTick = t]]

\* A zero-initialised instance after CC_RX_init.
RxInit(tbl, ptr, unreg, tocb) ==
    [Buf |-> [k \in 0..CC_RX_BUFFER_SIZE - 1 |-> RxMsg0], Head |-> 0, Tail |-> 0,
     RxTable |-> ptr, TableSize |-> Len(tbl),
     Parser_unreg_msg |-> unreg, TimeoutCallback |-> tocb]

\* A zero-initialised instance after CC_TX_init.
TxInit(tbl, send, bus) ==
    [Buf |-> [k \in 0..CC_TX_BUFFER_SIZE - 1 |-> TxMsg0], Head |-> 0, Tail |-> 0,
     TxTable |-> "TxTable", TableSize |-> Len(tbl),
     SendFunction |-> send, BusCheck |-> bus]

InitHistory ==
    /\ called = Called("init", NoArgs, FALSE, 0)
    /\ callLog = <<>>
    /\ pending = <<>>
    /\ clock = 0
    /\ pc = [prod |-> PushIdle, cons |-> PollIdle]

\* An application with one RX instance.
InitRX(tables, ptrs, unregs, tocbs) ==
    /\ instance = "RX"
    /\ \E tbl \in tables : RxTable = Stamped(tbl, CC_tick)
    /\ \E p \in ptrs, u \in unregs, t \in tocbs : RxInstance = RxInit(RxTable, p, u, t)
    /\ TxTable = <<>>
    /\ TxInstance = TxInit(<<>>, TRUE, TRUE)
    /\ fired = [i \in 1..Len(RxTable) |-> 0]

\* An application with one TX instance.
InitTX(tables) ==
    /\ instance = "TX"
    /\ \E tbl \in tables : TxTable = Stamped(tbl, CC_tick)
    /\ TxInstance = TxInit(TxTable, TRUE, TRUE)
    /\ RxTable = <<>>
    /\ RxInstance = RxInit(<<>>, "RxTable", TRUE, TRUE)
    /\ fired = [i \in 1..Len(TxTable) |-> 0]

\* The default build: CC_TIME_t is volatile uint32_t, int has 32 bits.
InitTime32 ==
    /\ CC_TIME_t = [bits |-> 32, intBits |-> 32]
    /\ CC_tick = 0
    /\ registered = TRUE

(************************ Spec: the two rings *******************************)
RingRxTables == { <<>>, <<RxEntry(7, 1, 0, 0, 0)>> }
\* A send period of zero: due on every call.
RingTxTables == { <<>>, <<TxEntry(5, 3, Zero8, 0, 0, 0, FALSE)>> }

Init ==
    /\ InitTime32
    /\ InitHistory
    /\ \/ InitRX(RingRxTables, {"RxTable"}, {TRUE}, {TRUE})
       \/ InitTX(RingTxTables)

RxPush ==
    \E ID \in {1, 2} :
        CC_RX_PushMsg(ID, Zero8, 0, 0, 0)

TxPush ==
    \E ID \in {1, 2} :
        CC_TX_PushMsg(ID, Zero8, 0, 0, 0)

TxPoll ==
    \E nFree \in 0..CC_TX_BUFFER_SIZE - 1, ub \in TX_Indeterminate({Ones8}) :
        CC_TX_Poll(nFree, ub.temp, ub)

Next ==
    \/ RxPush
    \/ CC_RX_Poll
    \/ TxPush
    \/ TxPoll
    \/ Tick(RingTicks)

Spec == Init /\ [][Next]_vars

(*************** SpecRX: an RX instance with timeouts and ticks *************)
RxTables == { <<RxEntry(7, 1, 1, 0, MaxPeriod)>> }

InitRx ==
    /\ InitTime32
    /\ InitHistory
    /\ InitRX(RxTables, {"RxTable"}, {TRUE}, {TRUE})

\* Lengths in and out of 1..8, with and without a payload to copy.
RxPushAny ==
    \E ID \in {1, 2}, DLC \in {1, 17}, i0 \in {0, 1} :
        CC_RX_PushMsg(ID, Zero8, DLC, 0, i0)

NextRx ==
    \/ RxPushAny
    \/ CC_RX_Poll
    \/ Tick(MaxTick)

SpecRX == InitRx /\ [][NextRx]_vars

(************ SpecDispatch: table entries that share an id *****************)
DispatchTables ==
    { <<RxEntry(7, 1, 0, 0, 0), RxEntry(8, 1, 1, 0, 0)>>,
      <<RxEntry(7, 1, 1, 0, 0), RxEntry(8, 1, 0, 0, 0)>>,
      <<RxEntry(7, 1, 1, 1, 0), RxEntry(8, 1, 1, 0, 0)>>,
      <<RxEntry(7, 1, 1, 0, 0), RxEntry(8, 1, 1, 0, 0)>> }

InitDispatch ==
    /\ InitTime32
    /\ InitHistory
    /\ InitRX(DispatchTables, {"RxTable"}, {TRUE, FALSE}, {TRUE})

RxPushSameId ==
    \E f \in { <<0, 0>>, <<1, 0>>, <<1, 1>>, <<2, 0>> } :
        CC_RX_PushMsg(1, Zero8, f[1], f[2], 0)

NextDispatch ==
    \/ RxPushSameId
    \/ CC_RX_Poll

SpecDispatch == InitDispatch /\ [][NextDispatch]_vars

(************* SpecEveryTick: CC_RX_Poll once at every tick ****************)
TimeoutTables ==
    { <<RxEntry(7, 1, 0, 0, a), RxEntry(8, 2, 0, 0, b)>> : a \in 0..MaxPeriod, b \in 0..MaxPeriod }

InitEveryTick ==
    /\ InitTime32
    /\ InitHistory
    /\ InitRX(TimeoutTables, {"RxTable"}, {TRUE}, {TRUE, FALSE})

PollAtTick == (called.fn \in {"init", "tick"}) /\ CC_RX_Poll

TickAfterPoll == (called.fn = "CC_RX_Poll") /\ Tick(2 * MaxTick)

NextEveryTick ==
    \/ PollAtTick
    \/ TickAfterPoll

SpecEveryTick == InitEveryTick /\ [][NextEveryTick]_vars

(************** SpecTX: a TX instance with periods and ticks ***************)
TxTables ==
    { <<TxEntry(5, 3, Zero8, 0, 0, p, FALSE)>> : p \in 0..MaxPeriod }
    \cup { <<TxEntry(5, 3, Zero8, 0, 0, 1, FALSE), TxEntry(6, 4, Ones8, 1, 1, MaxPeriod, TRUE)>> }

InitTx ==
    /\ InitTime32
    /\ InitHistory
    /\ InitTX(TxTables)

NextTx ==
    \/ TxPoll
    \/ Tick(MaxTick)

SpecTX == InitTx /\ [][NextTx]_vars

(************ SpecWidth: CC_TIME_t of 8 and 16 bits, near the wrap **********)
\* CC_TIME_BASE_TYPE_CUSTOM uint8_t / uint16_t on targets with a 16- and a
\* 32-bit int; the tick starts two increments before it wraps to zero.
InitTimeNarrow ==
    /\ CC_TIME_t \in { [bits |-> b, intBits |-> n] : b \in {8, 16}, n \in {16, 32} }
    /\ CC_tick = (2 ^ CC_TIME_t.bits) - 2
    /\ registered = TRUE

InitWidth ==
    /\ InitTimeNarrow
    /\ InitHistory
    /\ \/ InitRX({ <<RxEntry(7, 1, 0, 0, a)>> : a \in 1..MaxPeriod }, {"RxTable"}, {TRUE}, {TRUE})
       \/ InitTX({ <<TxEntry(5, 3, Zero8, 0, 0, p, FALSE)>> : p \in 1..MaxPeriod })

NextWidth ==
    \/ CC_RX_Poll
    \/ TxPoll
    \/ Tick(MaxTick)

SpecWidth == InitWidth /\ [][NextWidth]_vars

(************ SpecSPSC: RX PushMsg and RX Poll in two contexts *************)
\* One step of an activation p of CC_RX_PushMsg / CC_TX_PushMsg (the two
\* bodies are the same text) on the ring inst: one read or write of the
\* instance per step, in program order.
Push_step(inst, p) ==
    CASE p.at = "next_head" ->       \* uint16_t next_head = Instance->Head + 1, wrapped
           [inst |-> inst,
            p |-> [p EXCEPT !.at = "full", !.next_head = RX_next_head(inst.Head)]]
      [] p.at = "full" ->            \* if (next_head == Instance->Tail) return;
           [inst |-> inst,
            p |-> IF p.next_head = inst.Tail THEN PushIdle ELSE [p EXCEPT !.at = "Head"]]
      [] p.at = "Head" ->            \* Instance->Head = next_head;
           [inst |-> [inst EXCEPT !.Head = p.next_head], p |-> [p EXCEPT !.at = "ID"]]
      [] p.at = "ID" ->              \* Instance->Buf[Instance->Head].ID = ID;
           [inst |-> [inst EXCEPT !.Buf[inst.Head].ID = p.args.ID],
            p |-> [p EXCEPT !.at = "DLC"]]
      [] p.at = "DLC" ->             \* Instance->Buf[Instance->Head].DLC = DLC;
           [inst |-> [inst EXCEPT !.Buf[inst.Head].DLC = BitField(p.args.DLC, DLC_BITS)],
            p |-> [p EXCEPT !.at = "IDE_flag"]]
      [] p.at = "IDE_flag" ->        \* Instance->Buf[Instance->Head].IDE_flag = IDE_flag;
           [inst |-> [inst EXCEPT !.Buf[inst.Head].IDE_flag =
                                      BitField(p.args.IDE_flag, IDE_BITS)],
            p |-> [p EXCEPT !.at = "Data"]]
      [] p.at = "Data" ->            \* if ((DLC > 0) && (DLC <= 8)) CopyBuf(...); return
           [inst |-> IF (p.args.DLC > 0) /\ (p.args.DLC <= DATA_LEN)
                     THEN [inst EXCEPT !.Buf[inst.Head].Data =
                                          CopyBuf(p.args.Data, @, p.args.DLC, 0)]
                     ELSE inst,
            p |-> PushIdle]

\* The step of PushMsg that accepts the frame: the write of Head.
Accepts(p) == p.at = "Head"

\* The history of accepted frames after a step of the activation p (stored:
\* the header the activation is about to write).
Accepted(p, inst2) ==
    IF Accepts(p)
    THEN Append(pending,
                [args |-> p.args,
                 stored |-> [inst2.Buf[inst2.Head] EXCEPT
                               !.ID = p.args.ID,
                               !.DLC = BitField(p.args.DLC, DLC_BITS),
                               !.IDE_flag = BitField(p.args.IDE_flag, IDE_BITS)],
                 at |-> CC_GET_TICK])
    ELSE pending

\* The producer context calls CC_RX_PushMsg.
RX_Producer_call(ID, Data, DLC, IDE_flag) ==
    /\ instance = "RX"
    /\ pc.prod.at = "idle"
    /\ LET args == [ID |-> ID, Data |-> Data, DLC |-> DLC, IDE_flag |-> IDE_flag]
       IN  /\ pc' = [pc EXCEPT !.prod = [at |-> "next_head", next_head |-> 0, args |-> args]]
           /\ called' = Called("CC_RX_PushMsg", args, FALSE, 0)
    /\ callLog' = <<>>
    /\ UNCHANGED <<CC_tick, CC_TIME_t, instance, RxInstance, RxTable, TxInstance, TxTable,
                   pending, clock, fired, registered>>

\* The producer context executes the next read or write of CC_RX_PushMsg.
RX_Producer_step ==
    /\ instance = "RX"
    /\ pc.prod.at # "idle"
    /\ LET r == Push_step(RxInstance, pc.prod)
       IN  /\ RxInstance' = r.inst
           /\ pc' = [pc EXCEPT !.prod = r.p]
           /\ pending' = Accepted(pc.prod, r.inst)
    /\ callLog' = <<>>
    /\ UNCHANGED <<CC_tick, CC_TIME_t, instance, RxTable, TxInstance, TxTable,
                   called, clock, fired, registered>>

\* The consumer context calls CC_RX_Poll: CC_Timeout_Check, which reads and
\* writes the table only.
RX_Consumer_call ==
    /\ instance = "RX"
    /\ pc.cons.at = "idle"
    /\ registered
    /\ LET t == CC_Timeout_Check(RxInstance, RxTable, CC_GET_TICK)
       IN  /\ RxTable' = t.tbl
           /\ callLog' = t.calls
    /\ pc' = [pc EXCEPT !.cons.at = "while"]
    /\ called' = Called("CC_RX_Poll", NoArgs, FALSE, 0)
    /\ UNCHANGED <<CC_tick, CC_TIME_t, instance, RxInstance, TxInstance, TxTable,
                   pending, clock, fired, registered>>

\* The consumer context executes the next step of the loop of CC_RX_Poll.
RX_Consumer_step ==
    /\ instance = "RX"
    /\ pc.cons.at \notin {"idle"}
    /\ CASE pc.cons.at = "while" ->      \* while (Instance->Head != Instance->Tail)
              /\ pc' = [pc EXCEPT !.cons.at = IF RxInstance.Head # RxInstance.Tail
                                              THEN "Tail++" ELSE "idle"]
              /\ callLog' = <<>>
              /\ UNCHANGED <<RxInstance, RxTable, pending>>
         [] pc.cons.at = "Tail++" ->     \* Instance->Tail++;
              /\ RxInstance' = [RxInstance EXCEPT !.Tail = @ + 1]
              /\ pc' = [pc EXCEPT !.cons.at = IF RxInstance.Tail + 1 >= CC_RX_BUFFER_SIZE
                                              THEN "wrap" ELSE "dispatch"]
              /\ callLog' = <<>>
              /\ UNCHANGED <<RxTable, pending>>
         [] pc.cons.at = "wrap" ->       \* if (Instance->Tail >= CC_RX_BUFFER_SIZE) Instance->Tail = 0;
              /\ RxInstance' = [RxInstance EXCEPT !.Tail = 0]
              /\ pc' = [pc EXCEPT !.cons.at = "dispatch"]
              /\ callLog' = <<>>
              /\ UNCHANGED <<RxTable, pending>>
         [] pc.cons.at = "dispatch" ->   \* CC_RX_MsgFromTables(&Buf[Tail]), Parser_unreg_msg
              LET Msg == RxInstance.Buf[RxInstance.Tail]
                  m == CC_RX_MsgFromTables(RxInstance, RxTable, Msg)
              IN  /\ callLog' = <<Call("CC_RX_MsgFromTables", 0, Msg)>> \o
                                (IF m # 0
                                 THEN <<Call("Parser", RxTable[m].SlotNo, Msg)>>
                                 ELSE IF RxInstance.Parser_unreg_msg
                                      THEN <<Call("Parser_unreg_msg", 0, Msg)>>
                                      ELSE <<>>)
                  /\ RxTable' = IF m # 0
                                THEN [RxTable EXCEPT ![m].LastTick = Msg.Time]
                                ELSE RxTable
                  /\ pending' = IF pending = <<>> THEN pending
                                ELSE SubSeq(pending, 2, Len(pending))
                  /\ pc' = [pc EXCEPT !.cons.at = "while"]
                  /\ UNCHANGED RxInstance
    /\ UNCHANGED <<CC_tick, CC_TIME_t, instance, TxInstance, TxTable,
                   called, clock, fired, registered>>

SpscTables == { <<RxEntry(7, 1, 0, 0, 0)>> }

InitSPSC ==
    /\ InitTime32
    /\ InitHistory
    /\ InitRX(SpscTables, {"RxTable"}, {TRUE}, {TRUE})

\* The history of accepted frames is kept finite: no push is started while
\* more frames than the ring has slots await their dispatch.
ProducerCall ==
    /\ Len(pending) <= BufferSize
    /\ \E ID \in {1, 2} : RX_Producer_call(ID, Zero8, 0, 0)

NextSPSC ==
    \/ ProducerCall
    \/ RX_Producer_step
    \/ RX_Consumer_call
    \/ RX_Consumer_step

SpecSPSC == InitSPSC /\ [][NextSPSC]_vars

(********** SpecTXRace: TX PushMsg and TX Poll in two contexts *************)
\* The producer context calls CC_TX_PushMsg with an ad hoc frame.
TX_Producer_call(ID, Data, DLC, IDE_flag) ==
    /\ instance = "TX"
    /\ pc.prod.at = "idle"
    /\ LET args == [ID |-> ID, Data |-> Data, DLC |-> DLC, IDE_flag |-> IDE_flag]
       IN  /\ pc' = [pc EXCEPT !.prod = [at |-> "next_head", next_head |-> 0, args |-> args]]
           /\ called' = Called("CC_TX_PushMsg", args, FALSE, 0)
    /\ callLog' = <<>>
    /\ UNCHANGED <<CC_tick, CC_TIME_t, instance, RxInstance, RxTable, TxInstance, TxTable,
                   pending, clock, fired, registered>>

\* The producer context executes the next read or write of CC_TX_PushMsg.
TX_Producer_step ==
    /\ instance = "TX"
    /\ pc.prod.at # "idle"
    /\ LET r == Push_step(TxInstance, pc.prod)
       IN  /\ TxInstance' = r.inst
           /\ pc' = [pc EXCEPT !.prod = r.p]
           /\ pending' = Accepted(pc.prod, r.inst)
    /\ callLog' = <<>>
    /\ UNCHANGED <<CC_tick, CC_TIME_t, instance, RxInstance, RxTable, TxTable,
                   called, clock, fired, registered>>

\* The consumer context calls CC_TX_Poll: the assertion on BusCheck, then
\* CC_TX_MsgFromTables starts at the first table entry.
TX_Consumer_call ==
    /\ instance = "TX"
    /\ pc.cons.at = "idle"
    /\ registered
    /\ ~Aborted
    /\ IF TxInstance.BusCheck
       THEN /\ pc' = [pc EXCEPT !.cons = [at |-> "gen", i |-> 1, push |-> PushIdle]]
            /\ callLog' = <<>>
       ELSE /\ pc' = pc
            /\ callLog' = <<Call("assert", 0, TxMsg0)>>
    /\ called' = Called("CC_TX_Poll", NoArgs, FALSE, 0)
    /\ UNCHANGED <<CC_tick, CC_TIME_t, instance, RxInstance, RxTable, TxInstance, TxTable,
                   pending, clock, fired, registered>>

\* The consumer context executes the next step of CC_TX_Poll; free is the
\* answer of BusCheck, should this step call it.
TX_Consumer_step(free) ==
    /\ instance = "TX"
    /\ pc.cons.at # "idle"
    /\ ~Aborted
    /\ CASE pc.cons.at = "gen" ->        \* for (i ...) if (CC_GET_TICK - LastTick >= SendFreq)
              LET i == pc.cons.i IN
              IF i > TxInstance.TableSize
              THEN /\ pc' = [pc EXCEPT !.cons.at = "while"]
                   /\ callLog' = <<>>
                   /\ UNCHANGED <<TxInstance, TxTable, pending>>
              ELSE IF TX_Due(TxTable[i], CC_GET_TICK)
                   THEN LET e == TxTable[i]
                            Temp == CopyBuf(e.Data, Zero8, e.DLC, 0)
                            args == [ID |-> e.ID, Data |-> Temp, DLC |-> e.DLC,
                                     IDE_flag |-> e.IDE_flag]
                        IN  /\ TxTable' = [TxTable EXCEPT ![i].LastTick = CC_GET_TICK]
                            /\ pc' = [pc EXCEPT !.cons.at = "push",
                                                !.cons.push = [at |-> "next_head",
                                                               next_head |-> 0,
                                                               args |-> args]]
                            /\ callLog' = (IF e.Parser
                                           THEN <<Call("Parser", e.SlotNo, args)>>
                                           ELSE <<>>)
                                          \o <<Call("CC_TX_PushMsg", e.SlotNo, args)>>
                            /\ UNCHANGED <<TxInstance, pending>>
                   ELSE /\ pc' = [pc EXCEPT !.cons.i = i + 1]
                        /\ callLog' = <<>>
                        /\ UNCHANGED <<TxInstance, TxTable, pending>>
         [] pc.cons.at = "push" ->       \* CC_TX_PushMsg called by CC_TX_MsgFromTables
              LET r == Push_step(TxInstance, pc.cons.push)
              IN  /\ TxInstance' = r.inst
                  /\ pc' = IF r.p.at = "idle"
                           THEN [pc EXCEPT !.cons.at = "gen", !.cons.i = @ + 1,
                                           !.cons.push = PushIdle]
                           ELSE [pc EXCEPT !.cons.push = r.p]
                  /\ pending' = Accepted(pc.cons.push, r.inst)
                  /\ callLog' = <<>>
                  /\ UNCHANGED TxTable
         [] pc.cons.at = "while" ->      \* while (Head != Tail && BusCheck() == CC_BUS_FREE)
              /\ pc' = [pc EXCEPT !.cons.at =
                          IF TxInstance.Head # TxInstance.Tail /\ free
                          THEN "Tail++" ELSE "idle"]
              /\ callLog' = IF TxInstance.Head # TxInstance.Tail
                            THEN <<Call("BusCheck", IF free THEN 1 ELSE 0, TxMsg0)>>
                            ELSE <<>>
              /\ UNCHANGED <<TxInstance, TxTable, pending>>
         [] pc.cons.at = "Tail++" ->     \* Instance->Tail++;
              /\ TxInstance' = [TxInstance EXCEPT !.Tail = @ + 1]
              /\ pc' = [pc EXCEPT !.cons.at = IF TxInstance.Tail + 1 >= CC_TX_BUFFER_SIZE
                                              THEN "wrap" ELSE "send"]
              /\ callLog' = <<>>
              /\ UNCHANGED <<TxTable, pending>>
         [] pc.cons.at = "wrap" ->       \* if (Instance->Tail >= CC_TX_BUFFER_SIZE) Instance->Tail = 0;
              /\ TxInstance' = [TxInstance EXCEPT !.Tail = 0]
              /\ pc' = [pc EXCEPT !.cons.at = "send"]
              /\ callLog' = <<>>
              /\ UNCHANGED <<TxTable, pending>>
         [] pc.cons.at = "send" ->       \* assert(SendFunction); SendFunction(&Buf[Tail]);
              /\ callLog' = IF TxInstance.SendFunction
                            THEN <<Call("SendFunction", 0, TxInstance.Buf[TxInstance.Tail])>>
                            ELSE <<Call("assert", 0, TxMsg0)>>
              /\ pending' = IF pending = <<>> \/ ~TxInstance.SendFunction THEN pending
                            ELSE SubSeq(pending, 2, Len(pending))
              /\ pc' = [pc EXCEPT !.cons.at = "while"]
              /\ UNCHANGED <<TxInstance, TxTable>>
    /\ UNCHANGED <<CC_tick, CC_TIME_t, instance, RxInstance, RxTable,
                   called, clock, fired, registered>>

\* One table frame with a send period of zero: generated by every Poll.
RaceTxTables == { <<TxEntry(5, 3, Zero8, 0, 0, 0, FALSE)>> }

InitTXRace ==
    /\ InitTime32
    /\ InitHistory
    /\ InitTX(RaceTxTables)

\* The history of accepted frames is kept finite: no call is started while
\* more frames than the ring has slots await their sending.
AdHocCall ==
    /\ Len(pending) < BufferSize
    /\ TX_Producer_call(1, Zero8, 0, 0)

PollCall ==
    /\ Len(pending) < BufferSize
    /\ TX_Consumer_call

PollStep == \E free \in BOOLEAN : TX_Consumer_step(free)

NextTXRace ==
    \/ AdHocCall
    \/ TX_Producer_step
    \/ PollCall
    \/ PollStep

SpecTXRace == InitTXRace /\ [][NextTXRace]_vars

(************ SpecNoTick: no tick variable was ever registered *************)
\* CC_tick is NULL (src/unnamed/part_000:239); the tables are as the
\* application's initialisers left them.
NoTickTxTables == { <<TxEntry(5, 3, Zero8, 0, 0, p, FALSE)>> : p \in 0..MaxPeriod }

InitNoTick ==
    /\ CC_TIME_t = [bits |-> 32, intBits |-> 32]
    /\ CC_tick = 0
    /\ registered = FALSE
    /\ InitHistory
    /\ \/ InitRX(TimeoutTables, {"RxTable"}, {TRUE}, {TRUE})
       \/ InitTX(NoTickTxTables)

NextNoTick ==
    \/ RxPush
    \/ CC_RX_Poll
    \/ TxPoll

SpecNoTick == InitNoTick /\ [][NextNoTick]_vars

(********** SpecTXSetup: CC_TX_init with callbacks left NULL ***************)
InitTXSetup ==
    /\ InitTime32
    /\ InitHistory
    /\ instance = "TX"
    /\ \E tbl \in RingTxTables : TxTable = Stamped(tbl, CC_tick)
    /\ \E send \in BOOLEAN, bus \in BOOLEAN : TxInstance = TxInit(TxTable, send, bus)
    /\ RxTable = <<>>
    /\ RxInstance = RxInit(<<>>, "RxTable", TRUE, TRUE)
    /\ fired = [i \in 1..Len(TxTable) |-> 0]

NextTXSetup ==
    \/ TxPush
    \/ TxPoll

SpecTXSetup == InitTXSetup /\ [][NextTXSetup]_vars

(************* SpecCopy: pushes with a payload to copy **********************)
\* A payload that differs from the zeroed slots in every byte.
Payloads == { Ones8 }

\* An entry for the frames of length 1; the others go to the fallback.
CopyRxTables == { <<>>, <<RxEntry(7, 1, 1, 0, 0)>> }

InitCopy ==
    /\ InitTime32
    /\ InitHistory
    /\ \/ InitRX(CopyRxTables, {"RxTable"}, {TRUE}, {TRUE})
       \/ InitTX({ <<>> })

\* size_t i is not initialised in CopyBuf: the loop starts wherever i0 is.
RxPushData ==
    \E Data \in Payloads, DLC \in {1, 2}, i0 \in 0..1 :
        CC_RX_PushMsg(1, Data, DLC, 0, i0)

TxPushData ==
    \E Data \in Payloads, DLC \in {1, 2}, i0 \in 0..1 :
        CC_TX_PushMsg(1, Data, DLC, 0, i0)

NextCopy ==
    \/ RxPushData
    \/ CC_RX_Poll
    \/ TxPushData
    \/ TxPoll

SpecCopy == InitCopy /\ [][NextCopy]_vars

(******** SpecFallback: dispatch with and without table and fallback ********)
InitFallback ==
    /\ InitTime32
    /\ InitHistory
    /\ InitRX(DispatchTables, {"RxTable", "NULL"}, {TRUE, FALSE}, {TRUE})

NextFallback ==
    \/ RxPushSameId
    \/ CC_RX_Poll

SpecFallback == InitFallback /\ [][NextFallback]_vars

(****** SpecTables: both kinds of instance with timestamps in the tables ****)
\* An RX entry without and one with a timeout.
FrameRxTables == { <<RxEntry(7, 1, 0, 0, 0), RxEntry(8, 2, 0, 0, 1)>> }

\* A TX entry with a payload and a Parser callback, due at every tick.
FrameTxTables == { <<TxEntry(6, 4, Ones8, 1, 1, 1, TRUE)>> }

InitTables ==
    /\ InitTime32
    /\ InitHistory
    /\ \/ InitRX(FrameRxTables, {"RxTable"}, {TRUE}, {TRUE})
       \/ InitTX(FrameTxTables)

\* An ad hoc frame next to the generated ones.
TxPushAdHoc == CC_TX_PushMsg(1, Zero8, 0, 0, 0)

NextTables ==
    \/ RxPush
    \/ CC_RX_Poll
    \/ TxPushAdHoc
    \/ TxPoll
    \/ Tick(RingTicks)

SpecTables == InitTables /\ [][NextTables]_vars

(****** SpecTXLive: TX Poll called again and again, the bus free often ******)
\* An entry due at every Poll and one due at every tick.
LiveTxTables ==
    { <<TxEntry(5, 3, Zero8, 0, 0, 0, FALSE), TxEntry(6, 4, Zero8, 0, 0, 1, FALSE)>> }

InitTXLive ==
    /\ InitTime32
    /\ InitHistory
    /\ InitTX(LiveTxTables)

\* The main loop pushes an ad hoc frame between two Polls.
PushBetweenPolls == (pc.cons.at = "idle") /\ TxPushAdHoc

\* The main loop calls CC_TX_Poll.
PollAgain == TX_Consumer_call

\* CC_TX_Poll executes its next step; BusCheck, if called, answers busy.
StepBusy == TX_Consumer_step(FALSE)

\* CC_TX_Poll executes its next step; BusCheck, if called, answers free.
StepFree == TX_Consumer_step(TRUE)

\* BusCheck is called with a frame waiting and answers free.
BusFree ==
    /\ pc.cons.at = "while"
    /\ TxInstance.Head # TxInstance.Tail
    /\ TX_Consumer_step(TRUE)

NextTXLive ==
    \/ PushBetweenPolls
    \/ PollAgain
    \/ StepBusy
    \/ StepFree
    \/ Tick(RingTicks)

\* The main loop calls CC_TX_Poll for ever, a Poll that was called runs on,
\* and the bus is free again and again when it is asked.
SpecTXLive ==
    /\ InitTXLive
    /\ [][NextTXLive]_vars
    /\ WF_vars(PollAgain)
    /\ WF_vars(StepFree \/ StepBusy)
    /\ SF_vars(BusFree)

(***************************************************************************)
(*                              Properties                                 *)
(***************************************************************************)
\* The instance a behaviour exercises, as a ring.
Ring == IF instance = "RX" THEN RxInstance ELSE TxInstance
Ring_next == IF instance = "RX" THEN RxInstance' ELSE TxInstance'
IsPush(c) == c.fn \in {"CC_RX_PushMsg", "CC_TX_PushMsg"}
IsPoll(c) == c.fn \in {"CC_RX_Poll", "CC_TX_Poll"}
\* The frames a Poll handed on: dequeued for dispatch (RX), given to the send function (TX).
Delivered(log) ==
    LET d == CallsOf(log, IF instance = "RX" THEN "CC_RX_MsgFromTables" ELSE "SendFunction")
    IN  [k \in 1..Len(d) |-> d[k].Msg]
\* The slots Tail+1 .. Head of a ring hold the given frames, oldest first.
Holds(inst, frames) ==
    \A k \in 1..Len(frames) : inst.Buf[(inst.Tail + k) % BufferSize] = frames[k].stored
HasCall(log, c) == \E k \in 1..Len(log) : log[k] = c

\* C1: in every reachable state of the RX and of the TX instance, Head and
\* Tail lie in 0..capacity-1, the number of frames held (accepted and not yet
\* dequeued) equals (Head - Tail) mod capacity, and it is at most capacity-1.
C1_RingInvariant ==
    /\ \A inst \in {RxInstance, TxInstance} :
         /\ inst.Head \in 0..BufferSize - 1
         /\ inst.Tail \in 0..BufferSize - 1
    /\ Len(pending) = (Ring.Head - Ring.Tail) % BufferSize
    /\ Len(pending) <= BufferSize - 1

\* C1 witness: an RX ring that has wrapped (Head below Tail) and is full.
C1_Witness ==
    /\ instance = "RX"
    /\ RxInstance.Head < RxInstance.Tail
    /\ Len(pending) = BufferSize - 1
    /\ called.fn = "CC_RX_PushMsg"

\* C2: a PushMsg (RX or TX) made when (Head + 1) mod capacity = Tail makes no
\* call (no assertion fails), leaves the instance (Head, Tail, every slot) and
\* the set of held frames unchanged; and the frames a Poll hands on are, oldest
\* first, the frames held at its start.
C2_DropOnFull ==
    [][ /\ (IsPush(called') /\ (Ring.Head + 1) % BufferSize = Ring.Tail)
           => /\ RxInstance' = RxInstance
              /\ TxInstance' = TxInstance
              /\ ~called'.accepted
              /\ pending' = pending
              /\ callLog' = <<>>
              /\ Holds(Ring_next, pending)
        /\ IsPoll(called')
           => LET d == Delivered(callLog')
              IN  /\ \A k \in 1..Min(Len(d), Len(pending)) : d[k] = pending[k].stored
                  /\ instance = "RX" => Len(d) = Len(pending)
      ]_vars

\* C2 witness: a TX push was just made on a full, wrapped buffer and was dropped.
C2_Witness ==
    /\ instance = "TX"
    /\ called.fn = "CC_TX_PushMsg"
    /\ ~called.accepted
    /\ (TxInstance.Head + 1) % BufferSize = TxInstance.Tail
    /\ TxInstance.Buf[TxInstance.Tail].ID # called.args.ID

\* C3: the Poll after k accepted pushes dequeues exactly k frames, in push
\* order, each carrying the id, length and mode given to its push, and ends
\* with Head = Tail.
C3_DrainInPushOrder ==
    [][ called'.fn = "CC_RX_Poll"
        => LET d == Delivered(callLog')
           IN  /\ Len(d) = Len(pending)
               /\ \A k \in 1..Min(Len(d), Len(pending)) :
                    /\ d[k].ID = pending[k].args.ID
                    /\ d[k].DLC = pending[k].args.DLC
                    /\ d[k].IDE_flag = pending[k].args.IDE_flag
               /\ RxInstance'.Head = RxInstance'.Tail
      ]_vars

\* The table entries whose id, length and mode all equal a frame's.
Matching(Msg) ==
    { j \in 1..Len(RxTable) :
        /\ RxTable[j].ID = Msg.ID
        /\ RxTable[j].DLC = Msg.DLC
        /\ RxTable[j].IDE_flag = Msg.IDE_flag }

\* C4: with table entries that share an id, every dequeued frame is followed by
\* the Parser call of an entry whose id, length and mode all equal the frame's
\* when there is one (at any table position), and by no Parser call when
\* there is none: then the fallback handler, when configured, gets the frame.
\* Parser and fallback calls are made for dequeued frames only.
C4_ExactMatchDispatch ==
    called.fn = "CC_RX_Poll" =>
      \A k \in 1..Len(callLog) :
        LET c == callLog[k]
            nxt == IF k < Len(callLog) THEN callLog[k + 1] ELSE Call("none", 0, RxMsg0)
        IN  /\ c.fn = "CC_RX_MsgFromTables" =>
                 /\ Matching(c.Msg) # {} =>
                      /\ nxt.fn = "Parser"
                      /\ nxt.Msg = c.Msg
                      /\ \E j \in Matching(c.Msg) : nxt.Slot = RxTable[j].SlotNo
                 /\ Matching(c.Msg) = {} =>
                      /\ nxt.fn # "Parser"
                      /\ RxInstance.Parser_unreg_msg =>
                           (nxt.fn = "Parser_unreg_msg" /\ nxt.Msg = c.Msg)
                      /\ ~RxInstance.Parser_unreg_msg => nxt.fn # "Parser_unreg_msg"
            /\ c.fn \in {"Parser", "Parser_unreg_msg"} =>
                 (k > 1 /\ callLog[k - 1].fn = "CC_RX_MsgFromTables")

\* C4 witness: one Poll ran the Parser of the second of two entries with the
\* frame's id, and gave a frame with that id and another length to the fallback.
C4_Witness ==
    /\ called.fn = "CC_RX_Poll"
    /\ RxTable[1].ID = RxTable[2].ID
    /\ \E k \in 1..Len(callLog) :
         /\ callLog[k].fn = "Parser"
         /\ callLog[k].Slot = RxTable[2].SlotNo
         /\ callLog[k].Msg.ID = RxTable[1].ID
    /\ \E k \in 1..Len(callLog) :
         /\ callLog[k].fn = "Parser_unreg_msg"
         /\ callLog[k].Msg.ID = RxTable[1].ID

MaxOf(S) == CHOOSE x \in S : \A y \in S : y <= x

\* C5: when a Poll dispatches frames to a matching table entry with timeout
\* T > 0, the entry's lastSeen is, after the Poll, the tick at which the last
\* of those frames was received.
C5_TimeoutRearm ==
    [][ called'.fn = "CC_RX_Poll"
        => \A i \in 1..Len(RxTable) :
             LET ms == { k \in 1..Len(pending) : i \in Matching(pending[k].stored) }
             IN  (RxTable[i].TimeOut > 0 /\ ms # {})
                 => RxTable'[i].LastTick = pending[MaxOf(ms)].at
      ]_vars

\* C6: with Poll called once at every tick and no frame received, an RX entry
\* with timeout T > 0 times out at the Polls of ticks T, 2T, 3T, ... and at no
\* other: after the Poll of tick c its lastSeen is the last multiple of T up
\* to c, and the timeout callback, when configured, was called by that Poll
\* with the entry's slot id once if c is a positive multiple of T, and not
\* at all otherwise.
C6_RecurringTimeout ==
    called.fn = "CC_RX_Poll" =>
      \A i \in 1..Len(RxTable) :
        LET T == RxTable[i].TimeOut
            cb == Call("TimeoutCallback", RxTable[i].SlotNo, RxMsg0)
        IN  T > 0 =>
              /\ RxTable[i].LastTick = clock - (clock % T)
              /\ fired[i] = clock - (clock % T)
              /\ Len(SelectSeq(callLog, LAMBDA c : c = cb))
                   = IF RxInstance.TimeoutCallback /\ clock > 0 /\ clock % T = 0
                     THEN 1 ELSE 0

\* C6 witness: the Poll of tick 2T has just made the second timeout callback of
\* the first entry.
C6_Witness ==
    /\ called.fn = "CC_RX_Poll"
    /\ RxTable[1].TimeOut > 1
    /\ clock = 2 * RxTable[1].TimeOut
    /\ HasCall(callLog, Call("TimeoutCallback", RxTable[1].SlotNo, RxMsg0))
    /\ RxTable[1].LastTick = clock

\* The Poll that wrote this log generated a frame for TX entry i.
Generated(log, i) ==
    \E k \in 1..Len(log) : log[k].fn = "CC_TX_PushMsg" /\ log[k].Slot = TxTable[i].SlotNo

\* C7 (as stated): the firing instants of a TX entry with period P > 0 stay on
\* the grid T0 + k*P (T0 = 0 here) whatever the ticks of the Poll calls: its
\* lastSent is always a multiple of P.
C7_GridAligned ==
    \A i \in 1..Len(TxTable) :
        TxTable[i].SendFreq > 0 => TxTable[i].LastTick % TxTable[i].SendFreq = 0

\* C7 (amended): a TX entry with period P > 0 whose lastSent is F fires at a
\* Poll exactly when the tick is at least F + P; the firing sets lastSent to
\* the tick of that Poll, so the next firing is due P ticks after the actual
\* firing tick, not at the next point of the original grid.
C7_RearmFromFiring ==
    [][ called'.fn = "CC_TX_Poll"
        => \A i \in 1..Len(TxTable) :
             LET P == TxTable[i].SendFreq
             IN  P > 0 =>
                   /\ fired[i] = TxTable[i].LastTick
                   /\ Generated(callLog', i) <=> clock >= fired[i] + P
                   /\ fired'[i] = IF clock >= fired[i] + P THEN clock ELSE fired[i]
                   /\ TxTable'[i].LastTick = fired'[i]
      ]_vars

\* C7 witness: an entry has just fired off the grid, one tick late.
C7_Witness ==
    /\ called.fn = "CC_TX_Poll"
    /\ Len(TxTable) = 1
    /\ TxTable[1].SendFreq = 2
    /\ clock = 3
    /\ Generated(callLog, 1)
    /\ TxTable[1].LastTick = 3

\* The frames a TX Poll sent followed by the frames it left in the buffer.
AfterPoll == Delivered(callLog') \o [k \in 1..Len(pending') |-> pending'[k].stored]
Header(m) == <<m.ID, m.DLC, m.IDE_flag>>

\* C8: at a TX Poll, an entry with period P > 0 and now - lastSent < P gets no
\* frame generated and keeps its lastSent; an entry with now - lastSent >= P
\* gets exactly one frame generated, with the entry's id, length and mode, and
\* its lastSent becomes now. When the buffer has room for the frames of all
\* due entries, exactly these frames are added behind the frames already held.
C8_FiresExactlyWhenDue ==
    [][ called'.fn = "CC_TX_Poll"
        => LET due == { i \in 1..Len(TxTable) :
                          CC_tick - TxTable[i].LastTick >= TxTable[i].SendFreq }
               new == SubSeq(AfterPoll, Len(pending) + 1, Len(AfterPoll))
           IN  /\ \A i \in 1..Len(TxTable) :
                    LET e == TxTable[i]
                        gen == SelectSeq(callLog', LAMBDA c :
                                   c.fn = "CC_TX_PushMsg" /\ c.Slot = e.SlotNo)
                    IN  e.SendFreq > 0 =>
                          IF i \in due
                          THEN /\ Len(gen) = 1
                               /\ Header(gen[1].Msg) = Header(e)
                               /\ TxTable'[i].LastTick = CC_tick
                          ELSE /\ gen = <<>>
                               /\ TxTable'[i].LastTick = e.LastTick
               /\ Len(pending) + Cardinality(due) <= BufferSize - 1
                  => /\ Len(new) = Cardinality(due)
                     /\ { Header(new[k]) : k \in 1..Len(new) }
                          = { Header(TxTable[i]) : i \in due }
      ]_vars

\* C8 witness: the scenario with period 2: the entry stamped at tick 0 has
\* just generated its frame at the Poll of tick 2, nothing was sent yet and
\* the buffer holds that one frame.
C8_Witness ==
    /\ called.fn = "CC_TX_Poll"
    /\ called.nFree = 0
    /\ Len(TxTable) = 1
    /\ TxTable[1].SendFreq = 2
    /\ clock = 2
    /\ Generated(callLog, 1)
    /\ TxTable[1].LastTick = 2
    /\ Len(pending) = 1
    /\ pending[1].at = 2

\* C9: a TX Poll whose bus check reports busy at once calls the send function
\* zero times and leaves Tail alone; a Poll whose bus check reports free n
\* times sends the n oldest frames held, oldest first, each once, and the
\* frames not sent stay in the buffer in their order.
C9_BusGatedFlush ==
    [][ called'.fn = "CC_TX_Poll"
        => LET sent == Delivered(callLog')
           IN  /\ called'.nFree = 0 =>
                    /\ sent = <<>>
                    /\ TxInstance'.Tail = TxInstance.Tail
               /\ Len(sent) <= called'.nFree
               /\ (called'.nFree > 0 /\ pending # <<>>) => sent # <<>>
               /\ \A k \in 1..Min(Len(sent), Len(pending)) : sent[k] = pending[k].stored
               /\ \A k \in 1..Len(pending) :
                    k > Len(sent) => pending'[k - Len(sent)] = pending[k]
               /\ TxInstance'.Tail = (TxInstance.Tail + Len(sent)) % BufferSize
               /\ Holds(TxInstance', pending')
      ]_vars

\* C9 witness: a Poll has just found the bus busy with two frames waiting.
C9_Witness ==
    /\ called.fn = "CC_TX_Poll"
    /\ called.nFree = 0
    /\ HasCall(callLog, Call("BusCheck", 0, TxMsg0))
    /\ Len(pending) = 2
    /\ TxInstance.Tail # 0

\* C10: for every tick width, whether or not the tick counter has wrapped, an
\* entry with threshold T > 0 (RX timeout, TX period) is found due by a Poll
\* exactly when at least T ticks have elapsed since its last timestamp.
C10_WrapSafeDue ==
    [][ IsPoll(called')
        => \A i \in 1..Len(fired) :
             LET T == IF instance = "RX" THEN RxTable[i].TimeOut ELSE TxTable[i].SendFreq
                 found == IF instance = "RX"
                          THEN HasCall(callLog', Call("TimeoutCallback", RxTable[i].SlotNo, RxMsg0))
                          ELSE Generated(callLog', i)
             IN  T > 0 => (found <=> clock - fired[i] >= T)
      ]_vars

\* C11: with CC_RX_PushMsg running in a producer context and CC_RX_Poll in a
\* consumer context, interleaved read by read and write by write, every frame
\* the consumer dispatches is the oldest accepted frame not yet dispatched, with
\* the id, length, mode and payload given to its push (so none is lost and
\* none is dispatched twice).
C11_SPSC_Safe ==
    [][ (pc.cons.at = "dispatch" /\ pc'.cons.at = "while")
        => /\ pending # <<>>
           /\ LET m == callLog'[1].Msg
                  a == pending[1].args
              IN  /\ m.ID = a.ID
                  /\ m.DLC = a.DLC
                  /\ m.IDE_flag = a.IDE_flag
                  /\ \A j \in 1..Min(a.DLC, DATA_LEN) : m.Data[j] = a.Data[j]
      ]_vars

\* C12: with CC_TX_PushMsg running in a producer context and CC_TX_Poll
\* (generation, then flush) in a consumer context, interleaved read by read
\* and write by write, every frame handed to the send function is the oldest
\* accepted frame not yet sent, ad hoc or generated, with the id, length, mode
\* and payload it was enqueued with (so each is sent exactly once).
C12_TX_Safe ==
    [][ (pc.cons.at = "send" /\ pc'.cons.at = "while")
        => /\ pending # <<>>
           /\ LET m == callLog'[1].Msg
                  a == pending[1].args
              IN  /\ callLog'[1].fn = "SendFunction"
                  /\ m.ID = a.ID
                  /\ m.DLC = a.DLC
                  /\ m.IDE_flag = a.IDE_flag
                  /\ \A j \in 1..Min(a.DLC, DATA_LEN) : m.Data[j] = a.Data[j]
      ]_vars

\* C13: with no tick source registered, a Poll reads the tick as zero without
\* a fault and finds every RX entry with a nonzero timeout and every TX entry
\* due: the timeout callback is called for each such RX entry, a frame is
\* generated for each TX entry.
C13_NoTickAlwaysDue ==
    [][ (IsPoll(called') /\ ~registered)
        => /\ ~HasCall(callLog', Call("fault", 0, RxMsg0))
           /\ ~HasCall(callLog', Call("fault", 0, TxMsg0))
           /\ \A i \in 1..Len(RxTable) :
                RxTable[i].TimeOut # 0
                  => HasCall(callLog', Call("TimeoutCallback", RxTable[i].SlotNo, RxMsg0))
           /\ \A i \in 1..Len(TxTable) : Generated(callLog', i)
      ]_vars

\* The last call a step made is a failed assertion.
AssertFailed(log) == (log # <<>>) /\ (log[Len(log)].fn = "assert")

\* C14 (as stated): a TX Poll on an instance without bus-free predicate or
\* without send function ends in a failed assertion, whatever the buffer holds
\* and whatever the bus answers.
C14_MissingCallbackFatal ==
    [][ (called'.fn = "CC_TX_Poll" /\ (~TxInstance.BusCheck \/ ~TxInstance.SendFunction))
        => AssertFailed(callLog')
      ]_vars

\* C14 (amended): a TX Poll on an instance without bus-free predicate fails
\* its assertion on entry, leaving instance and table alone. On an instance
\* with bus-free predicate and without send function it fails an assertion
\* exactly when the flush gets to send: the buffer is not empty after the
\* generation phase and the predicate reports free; Tail has then advanced by
\* one and nothing was sent. Otherwise the Poll returns normally.
C14_AssertWhenUsed ==
    [][ called'.fn = "CC_TX_Poll"
        => LET nonempty == \/ TxInstance.Head # TxInstance.Tail
                           \/ \E i \in 1..Len(TxTable) : Generated(callLog', i)
           IN  /\ ~TxInstance.BusCheck
                    => /\ callLog' = <<Call("assert", 0, TxMsg0)>>
                       /\ TxInstance' = TxInstance
                       /\ TxTable' = TxTable
               /\ (TxInstance.BusCheck /\ ~TxInstance.SendFunction)
                    => /\ AssertFailed(callLog') <=> (nonempty /\ called'.nFree > 0)
                       /\ AssertFailed(callLog')
                            => TxInstance'.Tail = (TxInstance.Tail + 1) % BufferSize
                       /\ ~AssertFailed(callLog') => TxInstance'.Tail = TxInstance.Tail
                       /\ Delivered(callLog') = <<>>
               /\ (TxInstance.BusCheck /\ TxInstance.SendFunction)
                    => ~AssertFailed(callLog')
      ]_vars

\* C14 witness: an instance without send function has polled a non-empty
\* buffer with the bus busy and returned, and now fails the assertion in the
\* flush with the bus free.
C14_Witness ==
    /\ called.fn = "CC_TX_Poll"
    /\ TxInstance.BusCheck
    /\ ~TxInstance.SendFunction
    /\ AssertFailed(callLog)
    /\ HasCall(callLog, Call("BusCheck", 1, TxMsg0))
    /\ Len(pending) = 2
    /\ TxInstance.Tail = 1

\* C15: a push with a length outside 1..8 that finds room is accepted, its
\* slot holds the id, the length and the mode as given, and the payload of
\* the slot is what it was before the push.
C15_LengthStoredAsGiven ==
    [][ (called'.fn = "CC_RX_PushMsg" /\ called'.args.DLC \notin 1..8
            /\ RX_next_head(RxInstance.Head) # RxInstance.Tail)
        => LET slot == RxInstance'.Buf[RxInstance'.Head]
           IN  /\ called'.accepted
               /\ slot.ID = called'.args.ID
               /\ slot.DLC = called'.args.DLC
               /\ slot.IDE_flag = called'.args.IDE_flag
               /\ slot.Data = RxInstance.Buf[RxInstance'.Head].Data
      ]_vars

\* C16: for an RX entry whose timeout is zero, a Poll makes no timeout
\* callback with the entry's slot id, and its timeout phase leaves the entry
\* as it is, at every tick: the lastSeen after the Poll is the one before it,
\* or the time stamp of a frame the Poll dispatched to the entry.
C16_ZeroTimeoutDisables ==
    [][ called'.fn = "CC_RX_Poll"
        => \A i \in 1..Len(RxTable) :
             RxTable[i].TimeOut = 0
             => /\ ~HasCall(callLog', Call("TimeoutCallback", RxTable[i].SlotNo, RxMsg0))
                /\ \A now \in 0..MaxTick :
                     CC_Timeout_Check(RxInstance, RxTable, now).tbl[i] = RxTable[i]
                /\ \/ RxTable'[i].LastTick = RxTable[i].LastTick
                   \/ \E k \in 1..Len(callLog') :
                        /\ callLog'[k] = Call("Parser", RxTable[i].SlotNo, callLog'[k].Msg)
                        /\ RxTable'[i].LastTick = callLog'[k].Msg.Time
      ]_vars

\* C16 witness: after the tick has advanced, a Poll has dispatched a frame to
\* an entry whose timeout is zero.
C16_Witness ==
    /\ called.fn = "CC_RX_Poll"
    /\ CC_tick > 0
    /\ Len(RxTable) = 1
    /\ RxTable[1].TimeOut = 0
    /\ \E k \in 1..Len(callLog) : callLog[k].fn = "Parser" /\ callLog[k].Slot = RxTable[1].SlotNo

\* C17: in a TX Poll every call of the send function comes right after a
\* call of the bus-free predicate of its own that answered free, a busy
\* answer is the last call of the Poll, and Tail advances by the number of
\* sends, none of them after the busy answer.
C17_PerSendBusCheck ==
    [][ called'.fn = "CC_TX_Poll"
        => LET log == callLog'
               free == Call("BusCheck", 1, TxMsg0)
               busy == Call("BusCheck", 0, TxMsg0)
               sends == { k \in 1..Len(log) : log[k].fn = "SendFunction" }
           IN  /\ \A k \in sends : k > 1 /\ log[k - 1] = free
               /\ \A k \in 1..Len(log) : log[k] = free => (k + 1) \in sends
               /\ \A k \in 1..Len(log) : log[k] = busy => k = Len(log)
               /\ TxInstance'.Tail = (TxInstance.Tail + Cardinality(sends)) % BufferSize
      ]_vars

\* C17 witness: a Poll has sent one frame after a free answer and stopped at
\* a busy answer with a frame still waiting.
C17_Witness ==
    /\ called.fn = "CC_TX_Poll"
    /\ Len(callLog) >= 3
    /\ callLog[Len(callLog) - 2] = Call("BusCheck", 1, TxMsg0)
    /\ callLog[Len(callLog) - 1].fn = "SendFunction"
    /\ callLog[Len(callLog)] = Call("BusCheck", 0, TxMsg0)
    /\ Len(pending) = 1
    /\ TxInstance.Head # TxInstance.Tail

\* The first n bytes of two payloads are equal.
SameBytes(a, b, n) == \A j \in 1..n : a[j] = b[j]

\* C18: an accepted push with a length n in 1..8 leaves bytes 0..n-1 of the
\* caller's data in bytes 0..n-1 of the slot, and the frames a Poll hands to
\* the parser, the fallback or the send function carry these bytes.
C18_PayloadCopied ==
    [][ /\ (IsPush(called') /\ called'.accepted /\ called'.args.DLC \in 1..8)
            => LET slot == IF instance = "RX" THEN RxInstance'.Buf[RxInstance'.Head]
                                              ELSE TxInstance'.Buf[TxInstance'.Head]
               IN  SameBytes(slot.Data, called'.args.Data, called'.args.DLC)
        /\ IsPoll(called')
            => \A k \in 1..Len(callLog') :
                 callLog'[k].fn \in {"Parser", "Parser_unreg_msg", "SendFunction"}
                 => \E q \in 1..Len(pending) :
                      /\ callLog'[k].Msg.ID = pending[q].args.ID
                      /\ pending[q].args.DLC \in 1..8
                      /\ SameBytes(callLog'[k].Msg.Data, pending[q].args.Data, pending[q].args.DLC)
      ]_vars

\* The least element of a non-empty set of table indices.
MinOf(S) == CHOOSE x \in S : \A y \in S : x <= y

\* The table entries with a frame's id.
SameId(Msg) == { j \in 1..Len(RxTable) : RxTable[j].ID = Msg.ID }

\* The call that follows call k of a log.
NextCall(log, k) == IF k < Len(log) THEN log[k + 1] ELSE Call("none", 0, RxMsg0)

\* C19 (as stated): the first table entry with the frame's id alone decides the
\* dispatch of a dequeued frame: its parser runs when its length and mode
\* equal the frame's, and otherwise no parser runs and the fallback handler,
\* when configured, gets the frame.
C19_FirstIdDecides ==
    called.fn = "CC_RX_Poll" =>
      \A k \in 1..Len(callLog) :
        LET c == callLog[k]
            nxt == NextCall(callLog, k)
        IN  (c.fn = "CC_RX_MsgFromTables" /\ SameId(c.Msg) # {}) =>
              LET e == RxTable[MinOf(SameId(c.Msg))]
              IN  IF e.DLC = c.Msg.DLC /\ e.IDE_flag = c.Msg.IDE_flag
                  THEN nxt = Call("Parser", e.SlotNo, c.Msg)
                  ELSE /\ nxt.fn # "Parser"
                       /\ RxInstance.Parser_unreg_msg => nxt = Call("Parser_unreg_msg", 0, c.Msg)

\* C19 (amended): the scan goes on past the entries that have the frame's id
\* and another length or mode: the first entry whose id, length and mode all
\* equal the frame's decides, its parser runs with its slot id, and no parser
\* runs, and the fallback handler, when configured, gets the frame, only
\* when no entry equals the frame in all three.
C19_FirstFullMatchDecides ==
    called.fn = "CC_RX_Poll" =>
      \A k \in 1..Len(callLog) :
        LET c == callLog[k]
            nxt == NextCall(callLog, k)
        IN  c.fn = "CC_RX_MsgFromTables" =>
              IF Matching(c.Msg) # {}
              THEN nxt = Call("Parser", RxTable[MinOf(Matching(c.Msg))].SlotNo, c.Msg)
              ELSE /\ nxt.fn # "Parser"
                   /\ RxInstance.Parser_unreg_msg => nxt = Call("Parser_unreg_msg", 0, c.Msg)

\* C19 witness: a Poll passed over a first entry with the frame's id and
\* another length or mode, and ran the parser of the second entry.
C19_Witness ==
    /\ called.fn = "CC_RX_Poll"
    /\ Len(RxTable) = 2
    /\ \E k \in 1..Len(callLog) :
         /\ callLog[k].fn = "Parser"
         /\ callLog[k].Slot = RxTable[2].SlotNo
         /\ SameId(callLog[k].Msg) = {1, 2}
         /\ Matching(callLog[k].Msg) = {2}

\* A call of a parser or of the fallback handler.
IsCallback(c) == c.fn \in {"Parser", "Parser_unreg_msg"}

\* C20: a Poll dequeues every frame held, and each dequeued frame is followed
\* by at most one callback: the parser of one entry equal to it in id, length
\* and mode, with that entry's slot id, when the table is there and has
\* one; else the fallback handler when it is configured; else none. Callbacks
\* are made for dequeued frames only.
C20_OneDispatchPerFrame ==
    [][ called'.fn = "CC_RX_Poll"
        => LET log == callLog'
           IN  /\ Len(CallsOf(log, "CC_RX_MsgFromTables")) = Len(pending)
               /\ \A k \in 1..Len(log) :
                    LET c == log[k]
                        nxt == NextCall(log, k)
                        M == IF RxInstance.RxTable = "NULL" THEN {} ELSE Matching(c.Msg)
                    IN  /\ c.fn = "CC_RX_MsgFromTables" =>
                             /\ M # {} =>
                                  /\ nxt.fn = "Parser"
                                  /\ nxt.Msg = c.Msg
                                  /\ \E j \in M : nxt.Slot = RxTable[j].SlotNo
                             /\ (M = {} /\ RxInstance.Parser_unreg_msg) =>
                                  nxt = Call("Parser_unreg_msg", 0, c.Msg)
                             /\ (M = {} /\ ~RxInstance.Parser_unreg_msg) => ~IsCallback(nxt)
                        /\ IsCallback(c) =>
                             /\ k > 1 /\ log[k - 1].fn = "CC_RX_MsgFromTables"
                             /\ ~IsCallback(nxt)
      ]_vars

\* C20 witness: with no fallback handler configured a Poll has dequeued two
\* frames, run one parser for the first and made no callback for the second.
C20_Witness ==
    /\ called.fn = "CC_RX_Poll"
    /\ ~RxInstance.Parser_unreg_msg
    /\ Len(callLog) = 3
    /\ callLog[1].fn = "CC_RX_MsgFromTables"
    /\ callLog[2].fn = "Parser"
    /\ callLog[3].fn = "CC_RX_MsgFromTables"
    /\ RxInstance.Head = RxInstance.Tail

\* Two tables differ in the LastTick of their entries at most.
SameButLastTick(t1, t2) ==
    /\ Len(t1) = Len(t2)
    /\ \A i \in 1..Len(t1) : [t1[i] EXCEPT !.LastTick = 0] = [t2[i] EXCEPT !.LastTick = 0]

\* C21: no PushMsg writes a table; a Poll writes the LastTick of table
\* entries only: SlotNo, ID, DLC, IDE_flag, TimeOut or SendFreq, the Parser
\* and the Data of a TX entry are after every operation what they were
\* before it.
C21_TableFrame ==
    [][ /\ SameButLastTick(RxTable, RxTable')
        /\ SameButLastTick(TxTable, TxTable')
        /\ ~IsPoll(called') => (RxTable' = RxTable /\ TxTable' = TxTable)
        /\ called'.fn = "CC_RX_Poll" => TxTable' = TxTable
        /\ called'.fn = "CC_TX_Poll" => RxTable' = RxTable
      ]_vars

\* C21 witness: a TX Poll has stamped an entry with a payload whose Parser
\* callback left in the frame other bytes than the entry holds.
C21_Witness ==
    /\ called.fn = "CC_TX_Poll"
    /\ Len(TxTable) = 1
    /\ TxTable[1].LastTick > 0
    /\ TxTable[1].Data = Ones8
    /\ \E k \in 1..Len(callLog) :
         /\ callLog[k].fn = "Parser"
         /\ callLog[k].Slot = TxTable[1].SlotNo
         /\ callLog[k].Msg.Data # TxTable[1].Data

\* C22: an accepted RX push leaves in its slot the tick of the push as the
\* frame's Time, and every frame a Poll hands to a parser carries the tick of
\* its own push.
C22_ReceiptTimestamp ==
    [][ /\ (called'.fn = "CC_RX_PushMsg" /\ called'.accepted)
            => RxInstance'.Buf[RxInstance'.Head].Time = CC_GET_TICK
        /\ called'.fn = "CC_RX_Poll"
            => LET d == Delivered(callLog')
               IN  \A k \in 1..Min(Len(d), Len(pending)) : d[k].Time = pending[k].at
      ]_vars

\* The number of frames a ring holds.
Occupancy(inst) == (inst.Head - inst.Tail + BufferSize) % BufferSize

C24_FullDropsOccurrence ==
    [][ called'.fn = "CC_TX_Poll"
        => LET pushes == CallsOf(callLog', "CC_TX_PushMsg")
               sends == Len(CallsOf(callLog', "SendFunction"))
               kept == Min(BufferSize - 1 - Len(pending), Len(pushes))
               all == [k \in 1..Len(pending) + kept |->
                         IF k <= Len(pending) THEN pending[k].args
                                              ELSE pushes[k - Len(pending)].Msg]
           IN  /\ \A i \in 1..Len(TxTable) :
                    TX_Due(TxTable[i], CC_tick)
                    => /\ TxTable'[i].LastTick = CC_tick
                       /\ Generated(callLog', i)
                       /\ TxTable[i].Parser
                            => \E k \in 1..Len(callLog') :
                                 /\ callLog'[k].fn = "Parser"
                                 /\ callLog'[k].Slot = TxTable[i].SlotNo
                       /\ \A t \in CC_tick..CC_tick + TxTable[i].SendFreq - 1 :
                            ~TX_Due(TxTable'[i], t)
               /\ Len(pending') = Len(all) - sends
               /\ \A k \in 1..Len(pending') : pending'[k].args = all[k + sends]
      ]_vars

\* C24 witness: an entry with a period, due at a Poll that found the buffer
\* full and the bus busy, has lastSent = now and its frame is not among the
\* frames held, which are all older.
C24_Witness ==
    /\ called.fn = "CC_TX_Poll"
    /\ called.nFree = 0
    /\ Len(TxTable) = 1
    /\ TxTable[1].SendFreq > 0
    /\ Generated(callLog, 1)
    /\ TxTable[1].LastTick = CC_tick
    /\ Len(pending) = BufferSize - 1
    /\ \A k \in 1..Len(pending) : pending[k].at < CC_tick

\* Slot s of the TX ring holds a frame that was accepted and not yet handed
\* to the send function (Tail has moved on to a slot before its frame is sent).
Waiting(s) ==
    LET t == TxInstance.Tail % BufferSize
    IN  \/ /\ TxInstance.Head # t
           /\ s # t
           /\ (s - t + BufferSize) % BufferSize <= (TxInstance.Head - t + BufferSize) % BufferSize
        \/ /\ pc.cons.at \in {"wrap", "send"}
           /\ s = t

\* C25: with TX Poll called again and again and the bus free again and again,
\* every frame accepted into the buffer is eventually handed to the send
\* function and leaves the buffer in no other way; each send hands over the
\* oldest frame accepted and not yet sent, and one Poll generates its frames
\* in table-index order.
C25_EgressLiveFifo ==
    /\ \A s \in 0..BufferSize - 1 : Waiting(s) ~> ~Waiting(s)
    /\ [][ /\ \A s \in 0..BufferSize - 1 :
                (Waiting(s) /\ ~Waiting(s)')
                => /\ pc.cons.at = "send"
                   /\ callLog' = <<Call("SendFunction", 0, TxInstance.Buf[s])>>
           /\ (pc.cons.at = "send" /\ pc'.cons.at = "while")
                => /\ pending # <<>>
                   /\ callLog' = <<Call("SendFunction", 0, pending[1].stored)>>
                   /\ pending' = SubSeq(pending, 2, Len(pending))
           /\ ~(pc.cons.at = "send" /\ pc'.cons.at = "while") =>
                \/ pending' = pending
                \/ /\ Len(pending') = Len(pending) + 1
                   /\ SubSeq(pending', 1, Len(pending)) = pending
                   /\ pc.cons.at = "push"
                        => Header(pending'[Len(pending')].stored) = Header(TxTable[pc.cons.i])
           /\ (pc.cons.at # "idle" /\ pc'.cons.at # "idle") => pc'.cons.i >= pc.cons.i
         ]_vars

\* C25 witness: a Poll is about to send the frame of the second table
\* entry, after an ad hoc frame and the frame of the first entry.
C25_Witness ==
    /\ pc.cons.at = "send"
    /\ Len(pending) = 1
    /\ Header(pending[1].stored) = Header(TxTable[2])
    /\ TxInstance.Buf[TxInstance.Tail] = pending[1].stored
    /\ TxInstance.Head = TxInstance.Tail
    /\ CC_tick > 0

====
